---- MODULE Spec2Model ----
(***************************************************************************)
(* Model of dmutils.progressbar / dmutils._progress_bar                    *)
(* (src/dmutils.py:2177-2317): a function is run on a worker thread while  *)
(* the calling (foreground) thread polls it and advances a tqdm bar that   *)
(* is paced by an estimated duration.                                      *)
(*                                                                         *)
(* Time is abstracted: thread.join(timeout=tstep) may return at any        *)
(* moment (timeout or worker death), and the worker advances at any        *)
(* moment, so every relative timing of task and estimate is a behaviour.   *)
(* estimated_time and tstep are Python numbers: ints, whose arithmetic is   *)
(* exact, or floats (the decorator's default tstep is 0.1), whose          *)
(* arithmetic is IEEE-754 binary64 and rounds after every operation.       *)
(***************************************************************************)
EXTENDS Integers, Sequences, FiniteSets, TLC

\* ---------------------------------------------------------------- bounds
\* Largest estimated_time and tstep drawn as inputs.
MaxEst == 3
MaxStep == 4
\* Non-positive configurations drawn as inputs: -MaxNeg .. 0.
MaxNeg == 1
\* Steps of the task body (each a plain step or a call on the handle).
MaxWork == 2
\* With tstep < 0 the elapsed counter falls without bound; the model stops
\* following it below -MaxDrift.
MaxDrift == 3

\* ---------------------------------------------------------------- inputs
None == "None"
\* Values a task can return (None is Python's None, also ret's initial value).
TaskValues == {None, "a", "b"}
\* Messages a task can pass to the handle.
Msgs == {"m1", "m2"}
\* tqdm_kwargs["bar_format"] as configured by the decorator.
BAR_FORMAT == <<"bar_format">>

VARIABLES
    numbers,         \* type of the arguments estimated_time and tstep
    estimated_time,  \* argument estimated_time (never assigned)
    tstep_arg,       \* argument tstep as configured by the decorator
    task,            \* the function: [raises, value]
    kwargs_has_pb,   \* '_progress_bar' in kwargs.keys()
    pb_param,        \* how the call supplies the task's _progress_bar parameter
    pc,              \* position of the foreground thread
    tstep,           \* local tstep (reassigned by the clamps)
    actuall_time,    \* local actuall_time
    ret,             \* ret[0]
    pbar,            \* the tqdm object: [n, bar_format, lines, closed]
    handle,          \* what the task holds as _progress_bar
    wpc,             \* position of the worker thread
    work,            \* task-body steps still to run
    inside,          \* threads currently executing a pbar method
    result,          \* outcome of the decorated call
    hist,            \* observations: writes of ret[0], state at worker death,
                     \* state at the last poll, who ran the task body
    \* --- the other functions of the module, each a record with its own pc
    proc,            \* sysc: the Popen object p (child process and its pipe)
    sy,              \* sysc: locals, sink calls and outcome
    mg,              \* merge_dicts / merge_all_dicts: arguments and result
    ig,              \* ignored: the with-statement around a block
    tw,              \* teewrap: process output state around a call
    dtr,             \* DateTrans: the date string and the attributes built
    calls            \* invocations of one decorated function: closure, frames

\* State of _progress_bar and its decorator.
pb_vars == <<numbers, estimated_time, tstep_arg, task, kwargs_has_pb, pb_param, pc,
             tstep, actuall_time, ret, pbar, handle, wpc, work, inside,
             result, hist>>

\* State of the other functions; no step of _progress_bar touches it.
other_vars == <<proc, sy, mg, ig, tw, dtr, calls>>

vars == <<pb_vars, other_vars>>

\* A component that is not running in the specification at hand.
Off == [pc |-> "off"]

cfg_vars == <<numbers, estimated_time, tstep_arg, task, kwargs_has_pb, pb_param,
              other_vars>>
fg_vars == <<pc, tstep, actuall_time, result>>
wk_vars == <<wpc, work>>

\* ---------------------------------------------------- Python's numbers
\* A Python float is an IEEE-754 binary64 number.  The model writes one as
\* the integer count of units of 2^-56 it is worth, in three limbs:
\* value = ((h * 2^20 + m) * 2^20 + l) * 2^-56 with 0 <= m, l < 2^20 and h
\* carrying the sign.  Every float between 2^-4 and 2^4 in magnitude is a
\* whole number of units, so the results of + and - are rounded to 53
\* significant bits exactly as the hardware rounds them.
Limb == 2 ^ 20

\* Carries propagated: the limbs of h * 2^40 + m * 2^20 + l.
fnorm(h, m, l) ==
    LET m1 == m + (l \div Limb)
    IN [h |-> h + (m1 \div Limb), m |-> m1 % Limb, l |-> l % Limb]

\* float(k) for an int k.
float(k) == fnorm(k * (2 ^ 16), 0, 0)

\* -x
fneg(x) == fnorm(0 - x.h, 0 - x.m, 0 - x.l)

\* int.bit_length()
RECURSIVE bit_length(_)
bit_length(k) == IF k = 0 THEN 0 ELSE 1 + bit_length(k \div 2)

\* A non-negative exact sum or difference rounded to 53 significant bits,
\* ties to the even significand (the default rounding of binary64).
round_magnitude(x) ==
    LET d == 40 + bit_length(x.h) - 53
    IN IF x.h = 0 \/ d <= 0 THEN x
       ELSE LET q == 2 ^ d
                rem == x.l % q
                odd == (x.l \div q) % 2 = 1
                up == 2 * rem > q \/ (2 * rem = q /\ odd)
            IN fnorm(x.h, x.m, x.l - rem + (IF up THEN q ELSE 0))

round_float(x) ==
    IF x.h < 0 THEN fneg(round_magnitude(fneg(x))) ELSE round_magnitude(x)

\* float.__add__, float.__sub__, float.__lt__
fadd(x, y) == round_float(fnorm(x.h + y.h, x.m + y.m, x.l + y.l))
fsub(x, y) == round_float(fnorm(x.h - y.h, x.m - y.m, x.l - y.l))
flt(x, y) ==
    \/ x.h < y.h
    \/ x.h = y.h /\ (x.m < y.m \/ (x.m = y.m /\ x.l < y.l))

\* Float arguments drawn as inputs, (estimated_time, tstep): the default
\* tstep of the decorator below the estimate, and a tstep above twice the
\* estimate, where estimated_time - actuall_time is not exact.
FloatConfigs ==
    LET f0_1 == [h |-> 6553, m |-> 629145, l |-> 629146]   \* 0.1
        f0_3 == [h |-> 19660, m |-> 838860, l |-> 838860]  \* 0.3
        f0_5 == [h |-> 32768, m |-> 0, l |-> 0]            \* 0.5
        f0_8 == [h |-> 52428, m |-> 838860, l |-> 838864]  \* 0.8
    IN {[estimated_time |-> f0_3, tstep |-> f0_1],
        [estimated_time |-> f0_1, tstep |-> f0_5],
        [estimated_time |-> f0_3, tstep |-> f0_8]}

\* The int literal k as it takes part in the arithmetic of the call: with
\* float arguments an int operand is converted to float first (0 + 0.1 is
\* float(0) + 0.1), and an int and the float it converts to compare equal.
num(k) == IF numbers = "float" THEN float(k) ELSE k

\* x + y, x - y, x < y, x <= y on the numbers of the call.
add(x, y) == IF numbers = "float" THEN fadd(x, y) ELSE x + y
sub(x, y) == IF numbers = "float" THEN fsub(x, y) ELSE x - y
lt(x, y) == IF numbers = "float" THEN flt(x, y) ELSE x < y
le(x, y) == ~lt(y, x)

\* ------------------------------------------------------- the tqdm object
\* tqdm.tqdm(total=estimated_time, **tqdm_kwargs): a bar at 0.
tqdm_new == [n |-> num(0), bar_format |-> BAR_FORMAT, lines |-> <<>>, closed |-> FALSE]

\* Before _progress_bar has built the bar.
NoBar == [n |-> num(0), bar_format |-> <<>>, lines |-> <<>>, closed |-> FALSE]

\* Mutant: update(n) sets the displayed value to n.
pbar_update_total(p, n) == [p EXCEPT !.n = n]

\* pbar.update(n): the displayed value moves by n (n < 0 moves it back).
pbar_update(p, n) == [p EXCEPT !.n = add(@, n)]

\* Mutant: close() that leaves the bar open.
pbar_close_noop(p) == p

\* pbar.close()
pbar_close(p) == [p EXCEPT !.closed = TRUE]

\* Mutant: the message is added to the template in use,
\* pbar.bar_format += msg.
print_with_bar_accumulate(p, msg) == [p EXCEPT !.bar_format = @ \o <<msg>>]

\* handle.print_with_bar(msg): pbar.bar_format = tqdm_kwargs["bar_format"] + msg
print_with_bar(p, msg) == [p EXCEPT !.bar_format = BAR_FORMAT \o <<msg>>]

\* handle.print_in_line(msg): pbar.write(msg)
print_in_line(p, msg) == [p EXCEPT !.lines = Append(@, msg)]

\* ------------------------------------------------- conditions of the code
\* Mutant: a liveness test that reads a 'function has returned' flag rather
\* than the thread's end.
is_alive_flag(w) == w \in {"body", "in_print_with_bar", "in_print_in_line"}

\* thread.is_alive(): true from start() until the thread's run() has ended.
is_alive(w) ==
    w \in {"body", "in_print_with_bar", "in_print_in_line", "store", "exit"}

\* Mutant: polling that gives up once the estimate is used up.
PollAgain_timeboxed == is_alive(wpc) /\ lt(actuall_time, estimated_time)

\* while thread.is_alive():
PollAgain == is_alive(wpc)

\* if actuall_time < estimated_time:   /   while(actuall_time < estimated_time):
Below(a, E) == lt(a, E)

\* if actuall_time + tstep > estimated_time:
Overshoots(a, t, E) == lt(E, add(a, t))

\* tstep = estimated_time - actuall_time
Remainder(a, E) == sub(E, a)

\* The catch-up loop's step: the clamp comes before the update.
CatchUpStep(a, t, E) == IF Overshoots(a, t, E) THEN Remainder(a, E) ELSE t

\* Mutant: return_save that drops the value.
return_save_lost(r, v) == r

\* return_save: ret[0] = function(*args, **kwargs)
return_save(r, v) == v

\* threading.Thread(target=return_save, ...): the thread on which
\* return_save, and in it function(*args, **kwargs), runs.
BodyThread == "worker"

\* if '_progress_bar' in kwargs.keys(): kwargs['_progress_bar'] = <built-in>
Inject(has) == IF has THEN "builtin" ELSE "caller"

\* return ret[0]
ReturnValue(r) == [kind |-> "return", value |-> r]

\* ------------------------------------------------------------------ Init
Init ==
    /\ \/ /\ numbers = "int"
          /\ estimated_time \in (0 - MaxNeg) .. MaxEst
          /\ tstep_arg \in (0 - MaxNeg) .. MaxStep
       \/ /\ numbers = "float"
          /\ \E c \in FloatConfigs :
                /\ estimated_time = c.estimated_time
                /\ tstep_arg = c.tstep
    /\ task \in [raises : BOOLEAN, value : TaskValues]
    /\ (task.raises => task.value = None)
    /\ pb_param \in {"keyword", "positional", "omitted", "undeclared"}
    /\ kwargs_has_pb = (pb_param = "keyword")
    /\ pc = "decorate"
    /\ tstep = tstep_arg
    /\ actuall_time = num(0)
    /\ ret = None
    /\ pbar = NoBar
    /\ handle = "caller"
    /\ wpc = "idle"
    /\ work \in 0 .. MaxWork
    \* a call that omits a declared parameter fails to bind its arguments:
    \* function(*args, **kwargs) raises TypeError before any body step
    /\ (pb_param = "omitted" => (task.raises /\ work = 0))
    /\ inside = {}
    /\ result = [kind |-> "pending", value |-> None]
    /\ hist = [started |-> 0, ret_writes |-> 0, polled |-> FALSE,
               dead |-> FALSE, polled_at_death |-> FALSE,
               elapsed_at_death |-> num(0),
               poll |-> [n |-> num(0), a |-> num(0), timeout |-> num(0)],
               body_by |-> <<>>, last_msg |-> None]
    /\ proc = Off /\ sy = Off /\ mg = Off /\ ig = Off /\ tw = Off /\ dtr = Off
    /\ calls = Off

\* ------------------------------------------------- the foreground thread
\* progressbar(estimated_time, tstep, ...): returns real_decorator; the
\* arguments are only captured.
Decorate ==
    /\ pc = "decorate"
    /\ pc' = "call"
    /\ UNCHANGED <<cfg_vars, tstep, actuall_time, result, ret, pbar, handle,
                   wk_vars, inside, hist>>

\* wrapper(*args, **kwargs): calls _progress_bar with the captured arguments.
CallWrapper ==
    /\ pc = "call"
    /\ pc' = "setup"
    /\ tstep' = tstep_arg
    /\ UNCHANGED <<cfg_vars, actuall_time, result, ret, pbar, handle,
                   wk_vars, inside, hist>>

\* ret = [None]; pbar = tqdm.tqdm(total=estimated_time, ...)
Setup ==
    /\ pc = "setup"
    /\ ret' = None
    /\ pbar' = tqdm_new
    /\ pc' = "inject"
    /\ UNCHANGED <<cfg_vars, tstep, actuall_time, result, handle, wk_vars,
                   inside, hist>>

\* if '_progress_bar' in kwargs.keys(): ...
InjectHandle ==
    /\ pc = "inject"
    /\ handle' = Inject(kwargs_has_pb)
    /\ pc' = "start"
    /\ UNCHANGED <<cfg_vars, tstep, actuall_time, result, ret, pbar, wk_vars,
                   inside, hist>>

\* thread = Thread(target=return_save, ...); actuall_time = 0; thread.start()
StartThread ==
    /\ pc = "start"
    /\ actuall_time' = num(0)
    /\ wpc' = "body"
    /\ hist' = [hist EXCEPT !.started = @ + 1,
                            !.body_by = Append(@, BodyThread)]
    /\ pc' = "while_alive"
    /\ UNCHANGED <<cfg_vars, tstep, result, ret, pbar, handle, work, inside>>

\* while thread.is_alive():
WhileAlive ==
    /\ pc = "while_alive"
    /\ pc' = IF PollAgain THEN "join" ELSE "while_catchup"
    /\ UNCHANGED <<cfg_vars, tstep, actuall_time, result, ret, pbar, handle,
                   wk_vars, inside, hist>>

\* thread.join(timeout=tstep): returns when the timeout has passed or the
\* worker has ended, whichever is first.
Join ==
    /\ pc = "join"
    /\ pc' = "if_below"
    /\ hist' = [hist EXCEPT !.polled = TRUE,
                            !.poll = [n |-> pbar.n, a |-> actuall_time,
                                      timeout |-> tstep]]
    /\ UNCHANGED <<cfg_vars, tstep, actuall_time, result, ret, pbar, handle,
                   wk_vars, inside>>

\* if actuall_time < estimated_time:
IfBelow ==
    /\ pc = "if_below"
    /\ pc' = IF Below(actuall_time, estimated_time) THEN "upd1" ELSE "if_over"
    /\ UNCHANGED <<cfg_vars, tstep, actuall_time, result, ret, pbar, handle,
                   wk_vars, inside, hist>>

\* pbar.update(tstep), entered from `from`: the value moves, the bar is
\* being redrawn.
UpdateEnter(from, to) ==
    /\ pc = from
    /\ le(num(0 - MaxDrift), add(actuall_time, tstep))
    /\ pbar' = pbar_update(pbar, tstep)
    /\ inside' = inside \cup {"foreground"}
    /\ pc' = to
    /\ UNCHANGED <<cfg_vars, tstep, actuall_time, result, ret, handle,
                   wk_vars, hist>>

\* pbar.update returns.
UpdateLeave(from, to) ==
    /\ pc = from
    /\ inside' = inside \ {"foreground"}
    /\ pc' = to
    /\ UNCHANGED <<cfg_vars, tstep, actuall_time, result, ret, pbar, handle,
                   wk_vars, hist>>

\* actuall_time += tstep
AddStep(from, to) ==
    /\ pc = from
    /\ actuall_time' = add(actuall_time, tstep)
    /\ pc' = to
    /\ UNCHANGED <<cfg_vars, tstep, result, ret, pbar, handle, wk_vars,
                   inside, hist>>

Update1Enter == UpdateEnter("upd1", "upd1_in")
Update1Leave == UpdateLeave("upd1_in", "add1")
Add1 == AddStep("add1", "if_over")

\* if actuall_time + tstep > estimated_time:
IfOver ==
    /\ pc = "if_over"
    /\ pc' = IF Overshoots(actuall_time, tstep, estimated_time)
             THEN "clamp" ELSE "while_alive"
    /\ UNCHANGED <<cfg_vars, tstep, actuall_time, result, ret, pbar, handle,
                   wk_vars, inside, hist>>

\* tstep = estimated_time - actuall_time
Clamp ==
    /\ pc = "clamp"
    /\ tstep' = Remainder(actuall_time, estimated_time)
    /\ pc' = "upd2"
    /\ UNCHANGED <<cfg_vars, actuall_time, result, ret, pbar, handle,
                   wk_vars, inside, hist>>

Update2Enter == UpdateEnter("upd2", "upd2_in")
Update2Leave == UpdateLeave("upd2_in", "add2")
Add2 == AddStep("add2", "while_alive")

\* while(actuall_time < estimated_time):
WhileCatchUp ==
    /\ pc = "while_catchup"
    /\ pc' = IF Below(actuall_time, estimated_time) THEN "c_if" ELSE "close"
    /\ UNCHANGED <<cfg_vars, tstep, actuall_time, result, ret, pbar, handle,
                   wk_vars, inside, hist>>

\* if actuall_time + tstep > estimated_time: tstep = estimated_time - actuall_time
CatchUpClamp ==
    /\ pc = "c_if"
    /\ tstep' = CatchUpStep(actuall_time, tstep, estimated_time)
    /\ pc' = "c_upd"
    /\ UNCHANGED <<cfg_vars, actuall_time, result, ret, pbar, handle,
                   wk_vars, inside, hist>>

CatchUpUpdateEnter == UpdateEnter("c_upd", "c_upd_in")
CatchUpUpdateLeave == UpdateLeave("c_upd_in", "c_add")
CatchUpAdd == AddStep("c_add", "while_catchup")

\* pbar.close()
Close ==
    /\ pc = "close"
    /\ pbar' = pbar_close(pbar)
    /\ pc' = "return"
    /\ UNCHANGED <<cfg_vars, tstep, actuall_time, result, ret, handle,
                   wk_vars, inside, hist>>

\* return ret[0]
Return ==
    /\ pc = "return"
    /\ result' = ReturnValue(ret)
    /\ pc' = "returned"
    /\ UNCHANGED <<cfg_vars, tstep, actuall_time, ret, pbar, handle, wk_vars,
                   inside, hist>>

Foreground ==
    \/ Decorate \/ CallWrapper \/ Setup \/ InjectHandle \/ StartThread
    \/ WhileAlive \/ Join \/ IfBelow
    \/ Update1Enter \/ Update1Leave \/ Add1
    \/ IfOver \/ Clamp
    \/ Update2Enter \/ Update2Leave \/ Add2
    \/ WhileCatchUp \/ CatchUpClamp
    \/ CatchUpUpdateEnter \/ CatchUpUpdateLeave \/ CatchUpAdd
    \/ Close \/ Return

\* ----------------------------------------------------- the worker thread
\* What the foreground had reached when the worker thread ended.
AtDeath(h) ==
    [h EXCEPT !.dead = TRUE, !.polled_at_death = h.polled,
              !.elapsed_at_death = actuall_time]

\* One step of the task body that does not touch the display.
WorkStep ==
    /\ wpc = "body"
    /\ work > 0
    /\ work' = work - 1
    /\ UNCHANGED <<cfg_vars, fg_vars, ret, pbar, handle, wpc, inside, hist>>

\* The task calls _progress_bar.print_with_bar / .print on the injected handle.
CallPrintWithBar ==
    /\ wpc = "body"
    /\ work > 0
    /\ handle = "builtin"
    /\ wpc' = "in_print_with_bar"
    /\ inside' = inside \cup {"worker"}
    /\ UNCHANGED <<cfg_vars, fg_vars, ret, pbar, handle, work, hist>>

\* pbar.bar_format = tqdm_kwargs["bar_format"] + msg, and the call returns.
DoPrintWithBar ==
    /\ wpc = "in_print_with_bar"
    /\ \E msg \in Msgs :
         /\ pbar' = print_with_bar(pbar, msg)
         /\ hist' = [hist EXCEPT !.last_msg = msg]
    /\ inside' = inside \ {"worker"}
    /\ wpc' = "body"
    /\ work' = work - 1
    /\ UNCHANGED <<cfg_vars, fg_vars, ret, handle>>

\* The task calls _progress_bar.print_in_line / .write on the injected handle.
CallPrintInLine ==
    /\ wpc = "body"
    /\ work > 0
    /\ handle = "builtin"
    /\ wpc' = "in_print_in_line"
    /\ inside' = inside \cup {"worker"}
    /\ UNCHANGED <<cfg_vars, fg_vars, ret, pbar, handle, work, hist>>

\* pbar.write(msg), and the call returns.
DoPrintInLine ==
    /\ wpc = "in_print_in_line"
    /\ \E msg \in Msgs : pbar' = print_in_line(pbar, msg)
    /\ inside' = inside \ {"worker"}
    /\ wpc' = "body"
    /\ work' = work - 1
    /\ UNCHANGED <<cfg_vars, fg_vars, ret, handle, hist>>

\* function(*args, **kwargs) returns its value inside return_save.
TaskReturns ==
    /\ wpc = "body"
    /\ work = 0
    /\ ~task.raises
    /\ wpc' = "store"
    /\ UNCHANGED <<cfg_vars, fg_vars, ret, pbar, handle, work, inside, hist>>

\* function(*args, **kwargs) raises: return_save is left by the exception,
\* nothing is stored, and the thread ends (threading reports the exception
\* through its excepthook, in the worker thread).
TaskRaises ==
    /\ wpc = "body"
    /\ work = 0
    /\ task.raises
    /\ wpc' = "raised"
    /\ hist' = AtDeath(hist)
    /\ UNCHANGED <<cfg_vars, fg_vars, ret, pbar, handle, work, inside>>

\* ret[0] = <the value>
StoreRet ==
    /\ wpc = "store"
    /\ ret' = return_save(ret, task.value)
    /\ hist' = [hist EXCEPT !.ret_writes = @ + 1]
    /\ wpc' = "exit"
    /\ UNCHANGED <<cfg_vars, fg_vars, pbar, handle, work, inside>>

\* return_save returns and the thread ends.
ThreadExit ==
    /\ wpc = "exit"
    /\ wpc' = "finished"
    /\ hist' = AtDeath(hist)
    /\ UNCHANGED <<cfg_vars, fg_vars, ret, pbar, handle, work, inside>>

Worker ==
    \/ WorkStep
    \/ CallPrintWithBar \/ DoPrintWithBar
    \/ CallPrintInLine \/ DoPrintInLine
    \/ TaskReturns \/ TaskRaises \/ StoreRet \/ ThreadExit

\* ------------------------------------------------------ the specification
Next == Foreground \/ Worker

Spec == Init /\ [][Next]_vars

\* Both threads are scheduled again and again: the foreground never stops
\* for good while it has a statement to run, and neither does the worker.
FairSpec == Spec /\ WF_vars(Foreground) /\ WF_vars(Worker)

TypeOK ==
    /\ pc \in {"decorate", "call", "setup", "inject", "start", "while_alive",
               "join", "if_below", "upd1", "upd1_in", "add1", "if_over",
               "clamp", "upd2", "upd2_in", "add2", "while_catchup", "c_if",
               "c_upd", "c_upd_in", "c_add", "close", "return", "returned"}
    /\ wpc \in {"idle", "body", "in_print_with_bar", "in_print_in_line",
                "store", "exit", "finished", "raised"}
    /\ ret \in TaskValues
    /\ work \in 0 .. MaxWork
    /\ inside \subseteq {"foreground", "worker"}
    /\ handle \in {"caller", "builtin"}

\* ==================================================================== sysc
\* sysc(command, cwd, outprint, printfunction), src/dmutils.py:887-939: the
\* child runs concurrently and writes lines to a pipe that merges its stdout
\* and stderr; sysc reads the pipe line by line until end of stream and the
\* child's exit.

\* Lines the child writes at most.
MaxLines == 2

\* readline() at end of stream: the empty string.
EOF_ == <<>>

\* Characters str.strip() removes: every character for which str.isspace()
\* holds. A character without a TLA+ escape is written by its code point.
Whitespace ==
    {"\t", "\n", "U+000B", "\f", "\r", "U+001C", "U+001D", "U+001E", "U+001F",
     " ", "U+0085", "U+00A0", "U+1680", "U+2000", "U+2001", "U+2002",
     "U+2003", "U+2004", "U+2005", "U+2006", "U+2007", "U+2008", "U+2009",
     "U+200A", "U+2028", "U+2029", "U+202F", "U+205F", "U+3000"}

\* Contents of a line before its terminator, as readline() returns them:
\* empty, blank, and text with leading, trailing and inner whitespace (a
\* blank, a tab, a no-break space). The pipe is a text stream with universal
\* newlines (encoding='utf-8'), which turns '\r' and '\r\n' into '\n', so a
\* body holds no '\r' and no '\n'.
LineBodies ==
    {<<>>, <<" ">>, <<"a">>, <<" ", "b">>, <<"a", " ">>, <<"a", " ", "b">>,
     <<"\t", "a">>, <<"b", "\t", "a", "U+00A0">>}

\* What one readline() can return before end of stream: a terminated line,
\* or an unterminated last line.
TerminatedLines == {b \o <<"\n">> : b \in LineBodies}
UnterminatedLines == LineBodies \ {<<>>}

\* Exit statuses of the child (written as numerals, so that a status and
\* None are values of one kind).
ExitCodes == {"0", "1", "2"}

\* State of the progress bar when it is not the function being run.
PbIdle ==
    /\ numbers = "int"
    /\ estimated_time = 0 /\ tstep_arg = 0
    /\ task = [raises |-> FALSE, value |-> None]
    /\ kwargs_has_pb = FALSE /\ pb_param = "undeclared"
    /\ pc = "off" /\ tstep = 0 /\ actuall_time = 0 /\ ret = None
    /\ pbar = NoBar /\ handle = "caller" /\ wpc = "idle" /\ work = 0
    /\ inside = {}
    /\ result = [kind |-> "pending", value |-> None]
    /\ hist = [started |-> 0, ret_writes |-> 0, polled |-> FALSE,
               dead |-> FALSE, polled_at_death |-> FALSE,
               elapsed_at_death |-> num(0),
               poll |-> [n |-> num(0), a |-> num(0), timeout |-> num(0)],
               body_by |-> <<>>, last_msg |-> None]

sysc_frame == <<pb_vars, mg, ig, tw, dtr, calls>>

\* str.lstrip() / str.rstrip() / str.strip()
RECURSIVE lstrip(_)
lstrip(s) ==
    IF s # <<>> /\ s[1] \in Whitespace THEN lstrip(Tail(s)) ELSE s

RECURSIVE rstrip(_)
rstrip(s) ==
    IF s # <<>> /\ s[Len(s)] \in Whitespace
    THEN rstrip(SubSeq(s, 1, Len(s) - 1)) ELSE s

strip(s) == rstrip(lstrip(s))

\* p.stdout.readline() on a pipe holding `pipe`: the next line, or '' at end
\* of stream (it blocks while the pipe is empty and still open).
readline(pipe) == IF pipe # <<>> THEN Head(pipe) ELSE EOF_

\* Mutant: a poll that never sees the child's exit.
poll_unreaped(c) == None

\* p.poll(): None while the child runs, its exit status afterwards.
poll(c) == IF c.pc = "exited" THEN c.status ELSE None

\* (line := p.stdout.readline()) != ''
HasLine(line) == line # EOF_

\* Mutant: a loop that ends at the first empty read.
StillRunning_never(rc) == FALSE

\* (RC := p.poll()) is None
StillRunning(rc) == rc = None

\* Mutant: every text gets the carriage return.
SinkText_always_cr(pf, stripped_line) == <<"\r">> \o stripped_line

\* '\r' + stripped_line if printfunction == print else stripped_line
SinkText(pf, stripped_line) ==
    IF pf = "print" THEN <<"\r">> \o stripped_line ELSE stripped_line

\* Mutant: the newest line is put first.
OUT_prepend(OUT, stripped_line) == <<stripped_line>> \o OUT

\* OUT.append(stripped_line)
OUT_append(OUT, stripped_line) == Append(OUT, stripped_line)

\* Mutant: a non-zero status raises, as subprocess.check_output does.
sysc_return_checked(OUT, RC) ==
    IF RC = "0" THEN [kind |-> "return", OUT |-> OUT, RC |-> RC]
    ELSE [kind |-> "raise", OUT |-> <<>>, RC |-> RC]

\* return OUT, RC
sysc_return(OUT, RC) == [kind |-> "return", OUT |-> OUT, RC |-> RC]

InitSysc ==
    /\ PbIdle
    /\ mg = Off /\ ig = Off /\ tw = Off /\ dtr = Off /\ calls = Off
    /\ proc = [pc |-> "unstarted", stdout_open |-> FALSE, pipe |-> <<>>,
               status |-> None, emitted |-> <<>>]
    /\ \E op \in BOOLEAN, pf \in {"print", "custom"} :
         sy = [pc |-> "popen", outprint |-> op, printfunction |-> pf,
               line |-> EOF_, stripped_line |-> <<>>, OUT |-> <<>>,
               RC |-> None, printed |-> <<>>, read |-> <<>>,
               eof_while_running |-> FALSE,
               result |-> [kind |-> "pending", OUT |-> <<>>, RC |-> None]]

\* p = subprocess.Popen(command, shell=True, stdout=PIPE, stderr=STDOUT, ...)
\* OUT = []
Popen ==
    /\ sy.pc = "popen"
    /\ proc' = [proc EXCEPT !.pc = "running", !.stdout_open = TRUE]
    /\ sy' = [sy EXCEPT !.pc = "readline", !.OUT = <<>>]
    /\ UNCHANGED sysc_frame

\* A terminated line is written to the pipe, by the child or, also after
\* the child's exit, by a process it started that still holds the pipe.
ChildEmit ==
    /\ proc.stdout_open
    /\ Len(proc.emitted) < MaxLines
    /\ \E raw \in TerminatedLines :
         proc' = [proc EXCEPT !.pipe = Append(@, raw),
                              !.emitted = Append(@, raw)]
    /\ UNCHANGED <<sy, sysc_frame>>

\* A last line without terminator is written and the pipe's last holder
\* closes it.
ChildEmitTail ==
    /\ proc.stdout_open
    /\ Len(proc.emitted) < MaxLines
    /\ \E raw \in UnterminatedLines :
         proc' = [proc EXCEPT !.pipe = Append(@, raw),
                              !.emitted = Append(@, raw),
                              !.stdout_open = FALSE]
    /\ UNCHANGED <<sy, sysc_frame>>

\* The pipe's last holder closes it: the child, which may keep running, or
\* a process it started, which may outlive it.
ChildCloseStdout ==
    /\ proc.stdout_open
    /\ proc' = [proc EXCEPT !.stdout_open = FALSE]
    /\ UNCHANGED <<sy, sysc_frame>>

\* The child (the shell of shell=True) exits. The pipe stays open while a
\* process the child started holds it, and closes with the child otherwise.
ChildExit ==
    /\ proc.pc = "running"
    /\ \E code \in ExitCodes, held \in BOOLEAN :
         proc' = [proc EXCEPT !.pc = "exited", !.status = code,
                              !.stdout_open = @ /\ held]
    /\ UNCHANGED <<sy, sysc_frame>>

\* while (line := p.stdout.readline()) != '' or ...: the read, and the
\* first operand of the `or`.
Readline ==
    /\ sy.pc = "readline"
    /\ proc.pipe # <<>> \/ ~proc.stdout_open
    /\ LET line == readline(proc.pipe) IN
         /\ sy' = [sy EXCEPT
                     !.line = line,
                     !.read = IF line # EOF_ THEN Append(@, line) ELSE @,
                     !.pc = IF HasLine(line) THEN "if_line" ELSE "poll"]
         /\ proc' = [proc EXCEPT
                     !.pipe = IF @ # <<>> THEN Tail(@) ELSE @]
    /\ UNCHANGED sysc_frame

\* ... or (RC := p.poll()) is None: evaluated only after an empty read.
Poll ==
    /\ sy.pc = "poll"
    /\ LET RC == poll(proc) IN
         sy' = [sy EXCEPT
                  !.RC = RC,
                  !.eof_while_running = @ \/ (RC = None),
                  !.pc = IF StillRunning(RC) THEN "if_line" ELSE "return"]
    /\ UNCHANGED <<proc, sysc_frame>>

\* if line: stripped_line = line.strip(); if outprint: ...
IfLine ==
    /\ sy.pc = "if_line"
    /\ sy' = IF sy.line # <<>>
             THEN [sy EXCEPT !.stripped_line = strip(sy.line),
                             !.pc = IF sy.outprint THEN "print" ELSE "append"]
             ELSE [sy EXCEPT !.pc = "readline"]
    /\ UNCHANGED <<proc, sysc_frame>>

\* printfunction('\r' + stripped_line if printfunction == print else stripped_line)
SinkCall ==
    /\ sy.pc = "print"
    /\ sy' = [sy EXCEPT
                !.printed = Append(@, SinkText(sy.printfunction,
                                               sy.stripped_line)),
                !.pc = "append"]
    /\ UNCHANGED <<proc, sysc_frame>>

\* OUT.append(stripped_line)
AppendOut ==
    /\ sy.pc = "append"
    /\ sy' = [sy EXCEPT !.OUT = OUT_append(@, sy.stripped_line),
                        !.pc = "readline"]
    /\ UNCHANGED <<proc, sysc_frame>>

\* return OUT, RC
SyscReturn ==
    /\ sy.pc = "return"
    /\ sy' = [sy EXCEPT !.result = sysc_return(sy.OUT, sy.RC),
                        !.pc = "returned"]
    /\ UNCHANGED <<proc, sysc_frame>>

NextSysc ==
    \/ Popen \/ Readline \/ Poll \/ IfLine \/ SinkCall \/ AppendOut
    \/ SyscReturn
    \/ ChildEmit \/ ChildEmitTail \/ ChildCloseStdout \/ ChildExit

SpecSysc == InitSysc /\ [][NextSysc]_vars

\* The steps of sysc itself, and sysc under a scheduler that runs it: the
\* thread that called sysc keeps being scheduled; nothing is assumed of the
\* child, which may emit, close its output or exit at any time, or never.
SyscStep ==
    \/ Popen \/ Readline \/ Poll \/ IfLine \/ SinkCall \/ AppendOut
    \/ SyscReturn

FairSpecSysc == SpecSysc /\ WF_vars(SyscStep)

\* ============================================ merge_dicts, merge_all_dicts
\* src/dmutils.py:2320-2402. A dict is a function from its keys; a value is
\* tagged as a scalar (t = "v", in s) or as a nested dict (t = "d", in d), the
\* tag being what isinstance(value, dict) tests.

\* Longest dict_container drawn as input.
MaxDicts == 3

Val(x) == [t |-> "v", s |-> x, d |-> <<>>]
DictVal(f) == [t |-> "d", s |-> 0, d |-> f]

\* isinstance(v, dict)
isdict(v) == v.t = "d"

\* Input dicts: keys "x" and "y"; "x" may hold a scalar or a nested dict (the
\* empty one, ones with the same key and different values, one with another
\* key), "y" a scalar.
NestedDicts ==
    {<<>>, [k \in {"x"} |-> Val(1)], [k \in {"x"} |-> Val(2)],
     [k \in {"y"} |-> Val(2)]}
ValuesOf(k) ==
    {Val(1), Val(2)} \cup
    (IF k = "x" THEN {DictVal(f) : f \in NestedDicts}
                ELSE {})
DictSet ==
    UNION {{f \in [K -> UNION {ValuesOf(k) : k \in K}] :
              \A k \in K : f[k] \in ValuesOf(k)} : K \in SUBSET {"x", "y"}}

merge_frame == <<pb_vars, proc, sy, ig, tw, dtr, calls>>

\* dict(<iterable of (key, value) pairs>)
dict(pairs) ==
    [k \in {q[1] : q \in pairs} |-> (CHOOSE q \in pairs : q[1] = k)[2]]

\* Mutant: a shallow merge, as {**dict1, **dict2}.
merge_dicts_shallow(dict1, dict2) ==
    {<<k, IF k \in DOMAIN dict2 THEN dict2[k] ELSE dict1[k]>> :
        k \in DOMAIN dict1 \cup DOMAIN dict2}

\* merge_dicts(dict1, dict2): the (key, value) pairs the generator yields.
RECURSIVE merge_dicts(_, _)
merge_dicts(dict1, dict2) ==
    {<<k,
       IF k \in DOMAIN dict1 /\ k \in DOMAIN dict2
       THEN IF isdict(dict1[k]) /\ isdict(dict2[k])
            THEN DictVal(dict(merge_dicts(dict1[k].d, dict2[k].d)))
            ELSE dict2[k]
       ELSE IF k \in DOMAIN dict1 THEN dict1[k] ELSE dict2[k]>> :
        k \in DOMAIN dict1 \cup DOMAIN dict2}

\* for idx in range(len(dict_container)): ... (idx counts from 0 as in the
\* code; temp is unbound before the first iteration)
RECURSIVE merge_all_loop(_, _, _)
merge_all_loop(c, idx, temp) ==
    IF idx >= Len(c) THEN temp
    ELSE IF idx = 0
         THEN merge_all_loop(c, idx + 1, dict(merge_dicts(c[1], c[2])))
    ELSE IF idx = 1
         THEN merge_all_loop(c, idx + 1, temp)
    ELSE merge_all_loop(c, idx + 1, dict(merge_dicts(temp, c[idx + 1])))

\* Mutant: `return temp` inside the loop body, so that only the first two
\* dicts are merged.
merge_all_dicts_early_return(c) ==
    IF Len(c) > 1 THEN dict(merge_dicts(c[1], c[2]))
    ELSE IF Len(c) = 1 THEN c[1] ELSE <<>>

\* merge_all_dicts(dict_container)
merge_all_dicts(c) ==
    IF Len(c) > 1 THEN merge_all_loop(c, 0, <<>>)
    ELSE IF Len(c) = 1 THEN c[1] ELSE <<>>

InitMerge ==
    /\ PbIdle
    /\ proc = Off /\ sy = Off /\ ig = Off /\ tw = Off /\ dtr = Off
    /\ calls = Off
    /\ \E n \in 0 .. MaxDicts : \E c \in [1 .. n -> DictSet] :
         mg = [pc |-> "ready", dict_container |-> c, args |-> c,
               called |-> "none", out |-> <<>>]

\* dict(merge_dicts(dict1, dict2)) on the first two dicts.
CallMergeDicts ==
    /\ mg.pc = "ready"
    /\ Len(mg.dict_container) = 2
    /\ mg' = [mg EXCEPT
                !.out = dict(merge_dicts(mg.dict_container[1],
                                         mg.dict_container[2])),
                !.called = "merge_dicts", !.pc = "done"]
    /\ UNCHANGED merge_frame

\* merge_all_dicts(dict_container)
CallMergeAllDicts ==
    /\ mg.pc = "ready"
    /\ mg' = [mg EXCEPT !.out = merge_all_dicts(mg.dict_container),
                        !.called = "merge_all_dicts", !.pc = "done"]
    /\ UNCHANGED merge_frame

NextMerge == CallMergeDicts \/ CallMergeAllDicts

SpecMerge == InitMerge /\ [][NextMerge]_vars

\* ================================================================ ignored
\* src/dmutils.py:1783-1815, a generator under contextlib.contextmanager:
\*     try: yield
\*     except exception: func(**kwargs)

\* Exception classes and their base class.
ExcClasses ==
    {"BaseException", "Exception", "KeyboardInterrupt", "LookupError",
     "KeyError", "ValueError", "UnicodeError"}
base(c) ==
    CASE c = "Exception" -> "BaseException"
      [] c = "KeyboardInterrupt" -> "BaseException"
      [] c = "LookupError" -> "Exception"
      [] c = "KeyError" -> "LookupError"
      [] c = "ValueError" -> "Exception"
      [] c = "UnicodeError" -> "ValueError"
      [] OTHER -> "object"

\* The classes c inherits from, itself included.
RECURSIVE mro(_)
mro(c) == IF c = "object" THEN {} ELSE {c} \cup mro(base(c))

\* No exception in flight.
NoExc == [cls |-> "none", origin |-> "none"]
Exc(c, o) == [cls |-> c, origin |-> o]

\* Keyword arguments given to ignored beside exception and func.
KwargsSet == {<<>>, [k \in {"message"} |-> "Error ignored"]}

ignored_frame == <<pb_vars, proc, sy, mg, tw, dtr, calls>>

\* Mutant: the except clause matches the very class only.
ExceptMatches_exact(raised, exception) == raised.cls = exception

\* `except exception:` against the exception thrown in at the yield.
ExceptMatches(raised, exception) == exception \in mro(raised.cls)

\* The parameters of ignored, what the with block does and what func does.
InitIgnored ==
    /\ PbIdle
    /\ proc = Off /\ sy = Off /\ mg = Off /\ tw = Off /\ dtr = Off
    /\ calls = Off
    /\ \E e \in ExcClasses, b \in ExcClasses \cup {"none"},
          f \in {"none", "KeyError", "ValueError"}, kw \in KwargsSet :
         ig = [pc |-> "with", exception |-> e, kwargs |-> kw,
               block |-> b, func_raises |-> f,
               thrown |-> NoExc, func_calls |-> <<>>,
               outcome |-> "pending", propagated |-> NoExc]

\* __enter__: the generator runs to the yield.
IgnoredEnter ==
    /\ ig.pc = "with"
    /\ ig' = [ig EXCEPT !.pc = "block"]
    /\ UNCHANGED ignored_frame

\* The block ends without raising: __exit__ resumes the generator, which
\* leaves the try statement and ends.
BlockCompletes ==
    /\ ig.pc = "block" /\ ig.block = "none"
    /\ ig' = [ig EXCEPT !.pc = "after", !.outcome = "completed"]
    /\ UNCHANGED ignored_frame

\* The block raises: __exit__ throws the exception in at the yield.
BlockRaises ==
    /\ ig.pc = "block" /\ ig.block # "none"
    /\ ig' = [ig EXCEPT !.pc = "except", !.thrown = Exc(ig.block, "block")]
    /\ UNCHANGED ignored_frame

\* except exception: matches, the handler is entered.
ExceptClauseMatches ==
    /\ ig.pc = "except"
    /\ ExceptMatches(ig.thrown, ig.exception)
    /\ ig' = [ig EXCEPT !.pc = "handler"]
    /\ UNCHANGED ignored_frame

\* except exception: does not match, the exception leaves the generator and
\* the with statement.
ExceptClausePasses ==
    /\ ig.pc = "except"
    /\ ~ExceptMatches(ig.thrown, ig.exception)
    /\ ig' = [ig EXCEPT !.pc = "after", !.outcome = "raised",
                        !.propagated = ig.thrown]
    /\ UNCHANGED ignored_frame

\* func(**kwargs) returns: the generator ends and the exception is swallowed.
FuncReturns ==
    /\ ig.pc = "handler" /\ ig.func_raises = "none"
    /\ ig' = [ig EXCEPT !.pc = "after", !.outcome = "suppressed",
                        !.func_calls = Append(@, ig.kwargs)]
    /\ UNCHANGED ignored_frame

\* func(**kwargs) raises: its exception leaves the with statement.
FuncRaises ==
    /\ ig.pc = "handler" /\ ig.func_raises # "none"
    /\ ig' = [ig EXCEPT !.pc = "after", !.outcome = "raised",
                        !.func_calls = Append(@, ig.kwargs),
                        !.propagated = Exc(ig.func_raises, "func")]
    /\ UNCHANGED ignored_frame

NextIgnored ==
    \/ IgnoredEnter \/ BlockCompletes \/ BlockRaises
    \/ ExceptClauseMatches \/ ExceptClausePasses
    \/ FuncReturns \/ FuncRaises

SpecIgnored == InitIgnored /\ [][NextIgnored]_vars

\* ================================================================ teewrap
\* src/dmutils.py:1187-1270. One thread; the decorated function may print,
\* log, rebind sys.stdout, call another teewrap-decorated function and
\* build a DmLog (src/dmutils.py:1316-1348), which configures the same root
\* logger.

\* Deepest nesting of teewrap-decorated calls.
MaxNest == 2
\* Most print, log, rebind and DmLog operations of the program together.
MaxOps == 2

\* Objects: the streams, the Tee, log file and handler of the call at depth d.
Console == <<"console", 0>>
UserStream == <<"user", 0>>
Stderr == <<"stderr", 0>>
PreHandler == <<"prehandler", 0>>
TeeOf(d) == <<"tee", d>>
FileOf(d) == <<"file", d>>
HandlerOf(d) == <<"handler", d>>
\* Objects of the k-th DmLog(...): the FileHandler, its open log file and the
\* StreamHandler() of the savelog branch, the handler basicConfig adds.
DmFileHandler(k) == <<"fh", k>>
DmFile(k) == <<"dmfile", k>>
DmStreamHandler(k) == <<"sh", k>>
BasicHandler(k) == <<"bh", k>>

\* logging.DEBUG, INFO, WARNING, ERROR and NOTSET.
LevelNo(l) ==
    CASE l = "NOTSET" -> 0 [] l = "DEBUG" -> 10 [] l = "INFO" -> 20
      [] l = "WARNING" -> 30 [] l = "ERROR" -> 40

\* self.level_relation[llevel] for the llevel values drawn as input.
DmLevels == {"DEBUG", "INFO", "ERROR"}

teewrap_frame == <<pb_vars, proc, sy, mg, ig, dtr, calls>>

NoCall ==
    [depth |-> 0, stdout_before |-> Console, stdout_after |-> Console,
     handler_present |-> FALSE, file_open |-> FALSE,
     func_raised |-> FALSE, raised |-> FALSE, opened |-> FALSE]

\* file.write(obj) on a plain stream or log file: one more write on it.
file_write(w, target) == [w EXCEPT ![target] = @ + 1]

\* Tee.write(obj): for file in self.files: file.write(obj), where the files
\* of the Tee of depth d are (sys.stdout as it was at entry, the log file).
RECURSIVE Tee_write(_, _, _)
Tee_write(w, stack, target) ==
    IF target[1] = "tee"
    THEN file_write(Tee_write(w, stack, stack[target[2]].stdout_original),
                    stack[target[2]].f)
    ELSE file_write(w, target)

\* The stream of a handler of the root logger: sys.stderr for a
\* StreamHandler(), the log file for a FileHandler, the Tee for a wrapper's.
StreamOf(stack, h) ==
    IF h = PreHandler \/ h[1] \in {"sh", "bh"} THEN Stderr
    ELSE IF h[1] = "fh" THEN DmFile(h[2])
    ELSE stack[h[2]].tee

\* handler.level: fh.setLevel(...) and sh.setLevel(...) in DmLog; the other
\* handlers are left at NOTSET.
HandlerLevel(t, h) ==
    IF h[1] \in {"fh", "sh"} THEN LevelNo(t.dmlog[h[2]].llevel)
    ELSE LevelNo("NOTSET")

\* The handlers that emit a record of level lvl logged on the root logger:
\* none if the logger's level is above lvl, else those whose own level is
\* not above it.
Emitting(t, lvl) ==
    IF LevelNo(lvl) >= LevelNo(t.level)
    THEN {h \in t.handlers : LevelNo(lvl) >= HandlerLevel(t, h)}
    ELSE {}

\* DmLog(llevel=..., savelog=...).__init__, lines 1335-1348. Without savelog,
\* logging.basicConfig(level=..., format=...), which does nothing when the
\* root logger has a handler and else adds a StreamHandler and sets the
\* level. With savelog, a FileHandler and a StreamHandler at the level are
\* added to the root logger and its level is set.
DmLog_init(t, llevel, savelog) ==
    LET k == Len(t.dmlog) + 1
        t1 == [t EXCEPT !.dmlog = Append(@, [llevel |-> llevel,
                                             savelog |-> savelog])]
    IN IF ~savelog
       THEN IF t.handlers # {} THEN t1
            ELSE [t1 EXCEPT !.handlers = {BasicHandler(k)},
                            !.level = llevel]
       ELSE [t1 EXCEPT !.handlers = @ \cup {DmFileHandler(k),
                                            DmStreamHandler(k)},
                       !.open_files = @ \cup {DmFile(k)},
                       !.level = llevel]

\* Every handler of hs emits one record to its stream.
RECURSIVE logger_emit(_, _, _)
logger_emit(w, stack, hs) ==
    IF hs = {} THEN w
    ELSE LET h == CHOOSE x \in hs : TRUE IN
         logger_emit(Tee_write(w, stack, StreamOf(stack, h)), stack, hs \ {h})

\* <root logger>.<level>(msg), as self.logger.<level>(msg) of a DmLog with
\* savelog: the handlers that pass the record emit it; a logger without any
\* handler hands a record of WARNING or above to logging.lastResort, which
\* writes to sys.stderr.
root_log(t, lvl) ==
    IF t.handlers = {}
    THEN IF LevelNo(lvl) >= LevelNo(t.level)
            /\ LevelNo(lvl) >= LevelNo("WARNING")
         THEN [t EXCEPT !.written = file_write(@, Stderr)]
         ELSE t
    ELSE [t EXCEPT !.written = logger_emit(@, t.stack, Emitting(t, lvl))]

\* logging.<level>(msg), the module's function: if the root logger has no
\* handler, basicConfig() first gives it a StreamHandler on sys.stderr (the
\* level is left alone); then <root logger>.<level>(msg).
logging_log(t, lvl) ==
    root_log(IF t.handlers = {}
             THEN [t EXCEPT !.handlers = {BasicHandler(0)}] ELSE t, lvl)

\* Lines 1246-1259: f = open(...); tee = Tee(sys.stdout, f);
\* stdout_original = sys.stdout; sys.stdout = tee; logger.setLevel(DEBUG);
\* handler = StreamHandler(tee); logger.addHandler(handler).
Prologue(t, d) ==
    [t EXCEPT
       !.stack = Append(@, [f |-> FileOf(d), tee |-> TeeOf(d),
                            stdout_original |-> t.sys_stdout,
                            handler |-> HandlerOf(d),
                            pc |-> "func", raised |-> FALSE]),
       !.open_files = @ \cup {FileOf(d)},
       !.sys_stdout = TeeOf(d),
       !.level = "DEBUG",
       !.handlers = @ \cup {HandlerOf(d)}]

\* Mutant: the three statements after the call instead of in a finally.
Cleanup_no_finally(t, fr) ==
    IF fr.raised THEN t
    ELSE [t EXCEPT !.sys_stdout = fr.stdout_original,
                   !.handlers = @ \ {fr.handler},
                   !.open_files = @ \ {fr.f}]

\* finally: sys.stdout = stdout_original; logger.removeHandler(handler);
\* f.close()
Cleanup(t, fr) ==
    [t EXCEPT !.sys_stdout = fr.stdout_original,
              !.handlers = @ \ {fr.handler},
              !.open_files = @ \ {fr.f}]

InitTeewrap ==
    /\ PbIdle
    /\ proc = Off /\ sy = Off /\ mg = Off /\ ig = Off /\ dtr = Off
    /\ calls = Off
    /\ \E out \in {Console, UserStream}, lv \in {"WARNING", "INFO"},
          hs \in {{}, {PreHandler}} :
         tw = [pc |-> "idle", stack |-> <<>>, sys_stdout |-> out,
               handlers |-> hs, level |-> lv, open_files |-> {},
               written |-> [x \in {Console, UserStream, Stderr}
                                   \cup {FileOf(d) : d \in 1 .. MaxNest + 1}
                                   \cup {DmFile(k) : k \in 1 .. MaxOps}
                               |-> 0],
               dmlog |-> <<>>,
               ops |-> 0, last |-> NoCall]

\* The decorated function is running at the top of the stack.
InFunc == tw.stack # <<>> /\ tw.stack[Len(tw.stack)].pc = "func"
\* A teewrap-decorated function may be called: by the program, or by the
\* decorated function that is running.
MayCall ==
    \/ tw.pc = "idle"
    \/ tw.pc = "running" /\ InFunc /\ Len(tw.stack) < MaxNest

\* wrapper(*args, **kwargs) up to the call of func.
WrapperEnter ==
    /\ MayCall
    /\ tw' = [Prologue(tw, Len(tw.stack) + 1) EXCEPT !.pc = "running"]
    /\ UNCHANGED teewrap_frame

\* open(run_time_log, 'w') raises: the wrapper raises at its first line. The
\* caller, if it is a decorated function, goes on.
WrapperOpenRaises ==
    /\ MayCall
    /\ tw' = [tw EXCEPT
                !.pc = IF tw.stack = <<>> THEN "done" ELSE "running",
                !.last = [depth |-> Len(tw.stack) + 1,
                          stdout_before |-> tw.sys_stdout,
                          stdout_after |-> tw.sys_stdout,
                          handler_present |->
                              HandlerOf(Len(tw.stack) + 1) \in tw.handlers,
                          file_open |->
                              FileOf(Len(tw.stack) + 1) \in tw.open_files,
                          func_raised |-> FALSE, raised |-> TRUE,
                          opened |-> FALSE]]
    /\ UNCHANGED teewrap_frame

\* func: print(...), that is sys.stdout.write
FuncPrint ==
    /\ tw.pc = "running" /\ InFunc /\ tw.ops < MaxOps
    /\ tw' = [tw EXCEPT
                !.written = Tee_write(@, tw.stack, tw.sys_stdout),
                !.ops = @ + 1]
    /\ UNCHANGED teewrap_frame

\* func: logging.info(...) on the root logger
FuncLog ==
    /\ tw.pc = "running" /\ InFunc /\ tw.ops < MaxOps
    /\ tw' = [logging_log(tw, "INFO") EXCEPT !.ops = @ + 1]
    /\ UNCHANGED teewrap_frame

\* DmLog(llevel=..., savelog=...), built by the program before the decorated
\* call or by the decorated function that is running.
CallDmLog ==
    /\ tw.pc = "idle" \/ (tw.pc = "running" /\ InFunc)
    /\ tw.ops < MaxOps
    /\ \E llevel \in DmLevels, savelog \in BOOLEAN :
         tw' = [DmLog_init(tw, llevel, savelog) EXCEPT !.ops = @ + 1]
    /\ UNCHANGED teewrap_frame

\* func: sys.stdout = <a stream of its own>
FuncRebindsStdout ==
    /\ tw.pc = "running" /\ InFunc /\ tw.ops < MaxOps
    /\ tw.sys_stdout # UserStream
    /\ tw' = [tw EXCEPT !.sys_stdout = UserStream, !.ops = @ + 1]
    /\ UNCHANGED teewrap_frame

\* log.debug(msg), log.info(msg), log.warning(msg), log.error(msg) or
\* log.exception(msg) on a DmLog built before (showlog left at True), by the
\* program before or after the decorated call or by the decorated function:
\* __logorder__ calls logging.<name> for a DmLog without savelog and
\* self.logger.<name>, the root logger's, for one with. exception logs at
\* ERROR.
DmLogMethod ==
    /\ tw.pc \in {"idle", "done"} \/ (tw.pc = "running" /\ InFunc)
    /\ tw.ops < MaxOps
    /\ \E k \in 1 .. Len(tw.dmlog),
          lvl \in {"DEBUG", "INFO", "WARNING", "ERROR"} :
         tw' = [(IF tw.dmlog[k].savelog THEN root_log(tw, lvl)
                 ELSE logging_log(tw, lvl)) EXCEPT !.ops = @ + 1]
    /\ UNCHANGED teewrap_frame

\* result = func(*args, **kwargs) returns
TeeFuncReturns ==
    /\ tw.pc = "running" /\ InFunc
    /\ tw' = [tw EXCEPT !.stack[Len(tw.stack)].pc = "finally"]
    /\ UNCHANGED teewrap_frame

\* func(*args, **kwargs) raises
TeeFuncRaises ==
    /\ tw.pc = "running" /\ InFunc
    /\ tw' = [tw EXCEPT !.stack[Len(tw.stack)].pc = "finally",
                        !.stack[Len(tw.stack)].raised = TRUE]
    /\ UNCHANGED teewrap_frame

\* The finally block, then `return result` or the exception going on to the
\* caller.
WrapperExit ==
    /\ tw.pc = "running" /\ tw.stack # <<>>
    /\ LET d == Len(tw.stack)
           fr == tw.stack[d]
           t == Cleanup(tw, fr)
       IN /\ fr.pc = "finally"
          /\ tw' = [t EXCEPT
                      !.stack = SubSeq(@, 1, d - 1),
                      !.pc = IF d = 1 THEN "done" ELSE "running",
                      !.last = [depth |-> d,
                                stdout_before |-> fr.stdout_original,
                                stdout_after |-> t.sys_stdout,
                                handler_present |-> fr.handler \in t.handlers,
                                file_open |-> fr.f \in t.open_files,
                                func_raised |-> fr.raised,
                                raised |-> fr.raised,
                                opened |-> TRUE]]
    /\ UNCHANGED teewrap_frame

NextTeewrap ==
    \/ WrapperEnter \/ WrapperOpenRaises
    \/ FuncPrint \/ FuncLog \/ FuncRebindsStdout \/ CallDmLog \/ DmLogMethod
    \/ TeeFuncReturns \/ TeeFuncRaises
    \/ WrapperExit

SpecTeewrap == InitTeewrap /\ [][NextTeewrap]_vars

\* ============================================================== DateTrans
\* src/dmutils.py:1755-1780. Strings are sequences of one-character strings.

\* Years of the dates drawn as input; the first of January 2023 is a
\* Sunday and the thirtieth of December 2024 a Monday, so that ISO years on
\* both sides of the calendar year occur. Year 0 can be written in four
\* digits and is below datetime.MINYEAR.
Years == {0, 2023, 2024}

datetrans_frame == <<pb_vars, proc, sy, mg, ig, tw, calls>>

Digits == <<"0", "1", "2", "3", "4", "5", "6", "7", "8", "9">>

\* str(n) for n >= 0
RECURSIVE str(_)
str(n) ==
    IF n < 10 THEN <<Digits[n + 1]>>
    ELSE Append(str(n \div 10), Digits[(n % 10) + 1])

\* int(s) for a string of digits
RECURSIVE int(_)
int(s) ==
    IF s = <<>> THEN 0
    ELSE 10 * int(SubSeq(s, 1, Len(s) - 1))
         + ((CHOOSE i \in 1 .. 10 : Digits[i] = s[Len(s)]) - 1)

\* datestring.replace('-', '')
RECURSIVE replace_dash(_)
replace_dash(s) ==
    IF s = <<>> THEN <<>>
    ELSE IF s[1] = "-" THEN replace_dash(Tail(s))
    ELSE <<s[1]>> \o replace_dash(Tail(s))

\* The input written as YYYY-MM-DD or YYYYMMDD.
zfill2(n) == IF n < 10 THEN <<"0">> \o str(n) ELSE str(n)
zfill4(n) ==
    IF n < 10 THEN <<"0", "0", "0">> \o str(n)
    ELSE IF n < 100 THEN <<"0", "0">> \o str(n)
    ELSE IF n < 1000 THEN <<"0">> \o str(n) ELSE str(n)
DateString(y, m, d, dashed) ==
    IF dashed THEN zfill4(y) \o <<"-">> \o zfill2(m) \o <<"-">> \o zfill2(d)
    ELSE zfill4(y) \o zfill2(m) \o zfill2(d)

is_leap(y) == y % 4 = 0 /\ (y % 100 # 0 \/ y % 400 = 0)
days_in_month(y, m) ==
    IF m = 2 THEN (IF is_leap(y) THEN 29 ELSE 28)
    ELSE IF m \in {4, 6, 9, 11} THEN 30 ELSE 31

\* datetime.strptime(datestring, "%Y%m%d") on eight digits: the fields, or
\* ValueError for a year below datetime.MINYEAR (which is 1), a month
\* outside 1..12 or a day the month does not have.
strptime(s) ==
    LET y == int(SubSeq(s, 1, 4))
        m == int(SubSeq(s, 5, 6))
        d == int(SubSeq(s, 7, 8))
    IN [year |-> y, month |-> m, day |-> d,
        ok |-> y >= 1 /\ m \in 1 .. 12 /\ d \in 1 .. days_in_month(y, m)]

\* date.toordinal(): days since 0001-01-01, that day being 1.
RECURSIVE days_before_month(_, _)
days_before_month(y, m) ==
    IF m = 1 THEN 0
    ELSE days_before_month(y, m - 1) + days_in_month(y, m - 1)
days_before_year(y) ==
    (y - 1) * 365 + (y - 1) \div 4 - (y - 1) \div 100 + (y - 1) \div 400
toordinal(y, m, d) == days_before_year(y) + days_before_month(y, m) + d

\* The ordinal of the Monday of ISO week 1 of year y.
iso_week1_monday(y) ==
    LET firstday == toordinal(y, 1, 1)
        firstweekday == (firstday + 6) % 7
        week1monday == firstday - firstweekday
    IN IF firstweekday > 3 THEN week1monday + 7 ELSE week1monday

\* date.isocalendar(): <<ISO year, ISO week, ISO weekday>>
isocalendar(y, m, d) ==
    LET today == toordinal(y, m, d)
        off == today - iso_week1_monday(y)
        prev == today - iso_week1_monday(y - 1)
    IN IF off < 0
       THEN <<y - 1, (prev \div 7) + 1, (prev % 7) + 1>>
       ELSE IF off \div 7 >= 52 /\ today >= iso_week1_monday(y + 1)
       THEN <<y + 1, 1, (off % 7) + 1>>
       ELSE <<y, (off \div 7) + 1, (off % 7) + 1>>

\* self.quarter = int(self.month // 4 + 1)
quarter_of(month) == (month \div 4) + 1

\* The yearweek and yearmonth strings: two digits, a "0" put before one.
year_field(year, letter, n) ==
    IF Len(str(n)) = 2 THEN str(year) \o <<letter>> \o str(n)
    ELSE str(year) \o <<letter, "0">> \o str(n)

\* f"{self.year}Q{self.quarter}"
yearquarter_of(year, quarter) == str(year) \o <<"Q">> \o str(quarter)

InitDateTrans ==
    /\ PbIdle
    /\ proc = Off /\ sy = Off /\ mg = Off /\ ig = Off /\ tw = Off
    /\ calls = Off
    /\ \E y \in Years, m \in 1 .. 12, d \in 1 .. 31, dashed \in BOOLEAN :
         dtr = [pc |-> "new", datestring |-> DateString(y, m, d, dashed),
                date |-> <<y, m, d>>,
                year |-> 0, week |-> 0, month |-> 0, quarter |-> 0,
                weekday |-> 0, yearweek |-> <<>>, yearmonth |-> <<>>,
                yearquarter |-> <<>>]

\* DateTrans(datestring) for a date that exists.
DateTransInit ==
    /\ dtr.pc = "new"
    /\ LET f == strptime(replace_dash(dtr.datestring))
           iso == isocalendar(f.year, f.month, f.day)
       IN /\ f.ok
          /\ dtr' = [dtr EXCEPT
                       !.pc = "done",
                       !.year = iso[1], !.week = iso[2],
                       !.month = f.month,
                       !.quarter = quarter_of(f.month),
                       !.weekday = iso[3],
                       !.yearweek = year_field(iso[1], "W", iso[2]),
                       !.yearmonth = year_field(iso[1], "M", f.month),
                       !.yearquarter =
                           yearquarter_of(iso[1], quarter_of(f.month))]
    /\ UNCHANGED datetrans_frame

\* DateTrans(datestring) for a date strptime rejects (year 0000, or a day the
\* month does not have): ValueError is raised and no attribute is set.
DateTransRaises ==
    /\ dtr.pc = "new"
    /\ ~strptime(replace_dash(dtr.datestring)).ok
    /\ dtr' = [dtr EXCEPT !.pc = "raised"]
    /\ UNCHANGED datetrans_frame

NextDateTrans == DateTransInit \/ DateTransRaises

SpecDateTrans == InitDateTrans /\ [][NextDateTrans]_vars

\* ===================================== invocations of a decorated function
\* src/dmutils.py:2205-2249 and 2312-2317: one function decorated once and
\* called several times, one after another or from different threads. The
\* decorator's arguments live in the closure of wrapper; everything
\* _progress_bar works on is a local of its call. The loop test and the join
\* are separate steps, so that the thread can end between them; the updates
\* after a join, which touch only locals of the call, are one step.

\* The calls of the decorated function.
Invocations == {"first", "second"}

\* What the decorator was given: (estimated_time, tstep).
ClosureConfigs ==
    {[estimated_time |-> 3, tstep |-> 2], [estimated_time |-> 2, tstep |-> 1]}

\* Positional arguments and keywords a caller may pass; "ret" is also the
\* name of a parameter of return_save, "tstep" of _progress_bar.
ArgLists == {<<>>, <<"p1", "p2">>}
KwargsOf(names) == [k \in names |-> "given"]
KwargSets ==
    {KwargsOf({}), KwargsOf({"spam", "_progress_bar"}), KwargsOf({"tstep"}),
     KwargsOf({"ret"})}

calls_frame == <<pb_vars, proc, sy, mg, ig, tw, dtr>>

\* def return_save(function, ret, *args, **kwargs): its named parameters.
return_save_params == {"function", "ret"}

\* return_save(function, ret, *args, **kwargs) as the thread calls it: a
\* keyword that names one of the two parameters already given positionally
\* is a TypeError (multiple values for the argument).
BindFails(kwargs) == DOMAIN kwargs \cap return_save_params # {}

\* if '_progress_bar' in kwargs.keys(): kwargs['_progress_bar'] = <built-in>
inject_kwargs(kwargs) ==
    [k \in DOMAIN kwargs |->
        IF k = "_progress_bar" THEN Inject(TRUE) ELSE kwargs[k]]

\* thread.is_alive() for the thread of a call
thread_alive(w) == w \in {"run", "body"}

\* Mutant: tstep as a variable of the enclosing scope (nonlocal tstep), which
\* the clamp then writes for every later call.
store_tstep_nonlocal(c, i, v) ==
    [c EXCEPT !.frames[i].tstep = v, !.closure.tstep = v]

\* tstep = <value>: an assignment to the local of call i.
store_tstep(c, i, v) == [c EXCEPT !.frames[i].tstep = v]

\* pbar.update(tstep); actuall_time += tstep in call i.
advance(c, i) ==
    [c EXCEPT !.frames[i].pbar = pbar_update(@, c.frames[i].tstep),
              !.frames[i].actuall_time = add(@, c.frames[i].tstep)]

\* The rest of an iteration of `while thread.is_alive():` once the join has
\* returned: the two conditional updates.
poll_iteration(c, i) ==
    LET E == c.frames[i].estimated_time
        c1 == IF Below(c.frames[i].actuall_time, E) THEN advance(c, i) ELSE c
    IN IF Overshoots(c1.frames[i].actuall_time, c1.frames[i].tstep, E)
       THEN advance(store_tstep(c1, i,
                        Remainder(c1.frames[i].actuall_time, E)), i)
       ELSE c1

\* One iteration of `while(actuall_time < estimated_time):`.
catchup_iteration(c, i) ==
    LET f == c.frames[i]
    IN advance(store_tstep(c, i,
                   CatchUpStep(f.actuall_time, f.tstep, f.estimated_time)), i)

NotCalled == [called |-> FALSE, args |-> <<>>, kwargs |-> <<>>]

InitCalls ==
    /\ PbIdle
    /\ proc = Off /\ sy = Off /\ mg = Off /\ ig = Off /\ tw = Off /\ dtr = Off
    /\ \E cfg \in ClosureConfigs,
          a \in [Invocations -> ArgLists],
          kw \in [Invocations -> KwargSets],
          r \in [Invocations -> BOOLEAN] :
         calls = [config |-> cfg, closure |-> cfg,
                  frames |-> [i \in Invocations |->
                     [pc |-> "idle", args |-> a[i],
                      kwargs |-> kw[i], raises |-> r[i],
                      estimated_time |-> 0, tstep |-> 0, actuall_time |-> 0,
                      ret |-> None, pbar |-> NoBar,
                      thread_kwargs |-> <<>>, wpc |-> "idle",
                      received |-> NotCalled, body_by |-> <<>>,
                      threads |-> 0,
                      start |-> [tstep |-> 0, actuall_time |-> 0 - 1,
                                 estimated_time |-> 0],
                      result |-> [kind |-> "pending", value |-> None]]]]

\* wrapper(*args, **kwargs) -> _progress_bar(function, estimated_time=...,
\* tstep=..., args=args, kwargs=kwargs) up to thread.start().
InvCall(i) ==
    /\ calls.frames[i].pc = "idle"
    /\ calls' = [calls EXCEPT
         !.frames[i] = [@ EXCEPT
            !.pc = "loop",
            !.estimated_time = calls.closure.estimated_time,
            !.tstep = calls.closure.tstep,
            !.actuall_time = 0,
            !.ret = None,
            !.pbar = tqdm_new,
            !.thread_kwargs = inject_kwargs(calls.frames[i].kwargs),
            !.wpc = "run",
            !.threads = @ + 1,
            !.start = [tstep |-> calls.closure.tstep, actuall_time |-> 0,
                       estimated_time |-> calls.closure.estimated_time]]]
    /\ UNCHANGED calls_frame

\* The thread runs return_save(function, ret, *args, **kwargs), which calls
\* function(*args, **kwargs).
InvEnterBody(i) ==
    /\ calls.frames[i].wpc = "run"
    /\ ~BindFails(calls.frames[i].thread_kwargs)
    /\ calls' = [calls EXCEPT
         !.frames[i] = [@ EXCEPT
            !.wpc = "body",
            !.body_by = Append(@, BodyThread),
            !.received = [called |-> TRUE, args |-> calls.frames[i].args,
                          kwargs |-> calls.frames[i].thread_kwargs]]]
    /\ UNCHANGED calls_frame

\* The call of return_save raises TypeError: the thread ends, the function
\* has not been called.
InvBindRaises(i) ==
    /\ calls.frames[i].wpc = "run"
    /\ BindFails(calls.frames[i].thread_kwargs)
    /\ calls' = [calls EXCEPT !.frames[i].wpc = "raised"]
    /\ UNCHANGED calls_frame

\* The function returns; ret[0] = <its value>. The value names the call.
InvTaskReturns(i) ==
    /\ calls.frames[i].wpc = "body" /\ ~calls.frames[i].raises
    /\ calls' = [calls EXCEPT
         !.frames[i] = [@ EXCEPT !.wpc = "finished",
                                 !.ret = return_save(@, i)]]
    /\ UNCHANGED calls_frame

\* The function raises.
InvTaskRaises(i) ==
    /\ calls.frames[i].wpc = "body" /\ calls.frames[i].raises
    /\ calls' = [calls EXCEPT !.frames[i].wpc = "raised"]
    /\ UNCHANGED calls_frame

\* while thread.is_alive(): true; the caller stands before the join.
InvWhileAlive(i) ==
    /\ calls.frames[i].pc = "loop"
    /\ thread_alive(calls.frames[i].wpc)
    /\ calls' = [calls EXCEPT !.frames[i].pc = "join"]
    /\ UNCHANGED calls_frame

\* thread.join(timeout=tstep) returns, at the thread's end or at the
\* timeout, whichever the scheduling brings first, and the rest of the
\* iteration runs whether or not the thread has ended meanwhile.
InvPoll(i) ==
    /\ calls.frames[i].pc = "join"
    /\ calls' = [poll_iteration(calls, i) EXCEPT !.frames[i].pc = "loop"]
    /\ UNCHANGED calls_frame

\* while thread.is_alive(): false.
InvLeaveLoop(i) ==
    /\ calls.frames[i].pc = "loop"
    /\ ~thread_alive(calls.frames[i].wpc)
    /\ calls' = [calls EXCEPT !.frames[i].pc = "catchup"]
    /\ UNCHANGED calls_frame

\* while(actuall_time < estimated_time): one iteration.
InvCatchUp(i) ==
    /\ calls.frames[i].pc = "catchup"
    /\ Below(calls.frames[i].actuall_time, calls.frames[i].estimated_time)
    /\ calls' = catchup_iteration(calls, i)
    /\ UNCHANGED calls_frame

\* pbar.close(); return ret[0]
InvReturn(i) ==
    /\ calls.frames[i].pc = "catchup"
    /\ ~Below(calls.frames[i].actuall_time, calls.frames[i].estimated_time)
    /\ calls' = [calls EXCEPT
         !.frames[i] = [@ EXCEPT !.pc = "returned",
                                 !.pbar = pbar_close(@),
                                 !.result = ReturnValue(calls.frames[i].ret)]]
    /\ UNCHANGED calls_frame

NextCalls ==
    \E i \in Invocations :
        \/ InvCall(i) \/ InvEnterBody(i) \/ InvBindRaises(i)
        \/ InvTaskReturns(i) \/ InvTaskRaises(i)
        \/ InvWhileAlive(i) \/ InvPoll(i) \/ InvLeaveLoop(i)
        \/ InvCatchUp(i) \/ InvReturn(i)

SpecCalls == InitCalls /\ [][NextCalls]_vars

\* ================================================================ claims
\* A configuration the interface admits: positive estimated_time and tstep.
ValidConfig == lt(num(0), estimated_time) /\ lt(num(0), tstep_arg)

Returned == pc = "returned"
Dead == wpc \in {"finished", "raised"}

\* C1: if the task raises in the worker thread, the decorated call raises
\* that exception to its caller; it never returns a normal value.
C1_RaisePropagates ==
    (Returned /\ task.raises) => result.kind = "raise"

\* C2: for a task that completes normally the call returns exactly the
\* value the task returned, whatever the task's duration relative to the
\* estimate.
C2_ResultFidelity ==
    (Returned /\ ~task.raises) =>
        result = [kind |-> "return", value |-> task.value]

\* The task returned "b" after the bar had already reached the estimate
\* (overrun), and the call returned "b".
C2_Witness ==
    /\ Returned /\ ~task.raises /\ ValidConfig
    /\ task.value = "b" /\ result.value = "b"
    /\ hist.polled_at_death /\ hist.elapsed_at_death = estimated_time

\* The other timings of C2: the worker ended before the first poll, and
\* while the bar was still below the estimate.
C2_BeforeFirstPoll ==
    /\ Returned /\ ~task.raises /\ ValidConfig /\ result.value = "a"
    /\ ~hist.polled_at_death
C2_BelowEstimate ==
    /\ Returned /\ ~task.raises /\ ValidConfig /\ result.value = "a"
    /\ hist.polled_at_death
    /\ lt(num(0), hist.elapsed_at_death)
    /\ lt(hist.elapsed_at_death, estimated_time)

C4_Monotone ==
    [][ ValidConfig =>
          (le(pbar.n, pbar'.n) /\ le(actuall_time, actuall_time')) ]_vars

\* C5: while the worker is running the displayed value and the elapsed
\* counter never exceed estimated_time, also for tstep > estimated_time.
C5_NeverExceeds ==
    (ValidConfig /\ is_alive(wpc)) =>
        (le(pbar.n, estimated_time) /\ le(actuall_time, estimated_time))

\* C6: when the call returns (task succeeded or failed, early or late) the
\* displayed value equals estimated_time; stated for the configurations the
\* interface admits (positive estimated_time and tstep).
C6_Converges ==
    (Returned /\ ValidConfig) =>
        (pbar.n = estimated_time /\ actuall_time = estimated_time)

\* C7: ret[0] is written at most once, only by the worker (at its store
\* step), and the foreground reads it only once the worker has ended.
C7_ResultSlot ==
    /\ hist.ret_writes <= 1
    /\ (hist.ret_writes = 1 <=> wpc \in {"exit", "finished"})
    /\ (ret # None => hist.ret_writes = 1)
    /\ (pc \in {"return", "returned"} => Dead)

\* The worker stored "a" while the foreground was polling, and the
\* foreground has read it.
C7_Witness ==
    /\ Returned /\ hist.ret_writes = 1 /\ ret = "a" /\ result.value = "a"
    /\ hist.polled_at_death

\* C8: the call does not return before the worker has ended, and the task
\* body has then run all its steps, however long the bar has been full.
C8_RunsToCompletion ==
    Returned => (Dead /\ hist.dead /\ work = 0 /\ hist.started = 1)

\* The bar was already full when the worker ended (overrun); the task had
\* used the handle, ran all its steps, and only then did the call return.
C8_Witness ==
    /\ Returned /\ ValidConfig /\ Dead /\ work = 0
    /\ hist.elapsed_at_death = estimated_time
    /\ pbar.bar_format # BAR_FORMAT

\* C9: a handle call of the worker never executes concurrently with a
\* display update of the foreground (a mutex serializes them).
C9_Serialized ==
    ~({"foreground", "worker"} \subseteq inside)

\* C10: a non-positive estimated_time or tstep is rejected before the worker
\* is started.
C10_InvalidRejected ==
    ~ValidConfig => wpc = "idle"

\* C11: a task that declares _progress_bar runs with the built-in handle as
\* that argument, however the caller supplied it (keyword, positional, not
\* at all).
C11_HandleAlwaysInjected ==
    (wpc = "body" /\ pb_param # "undeclared") => handle = "builtin"

\* The smaller of two numbers.
Min(x, y) == IF le(x, y) THEN x ELSE y

\* The foreground is at the head of the polling loop after a poll.
PollDone == pc = "while_alive" /\ hist.polled

\* C21: a poll that starts with the elapsed counter below the estimate moves
\* the displayed value by exactly min(tstep, estimated_time - elapsed):
\* never a full step and a remainder in one poll.
C21_AdvanceIsMin ==
    (ValidConfig /\ PollDone /\ lt(hist.poll.a, estimated_time)) =>
        sub(pbar.n, hist.poll.n)
            = Min(hist.poll.timeout, sub(estimated_time, hist.poll.a))

\* The last poll started with the elapsed counter at the estimate: overrun.
OverrunPoll ==
    ValidConfig /\ hist.polled /\ le(estimated_time, hist.poll.a)

\* C22: from a poll that starts with the elapsed counter at the estimate on,
\* the displayed value and the counter stay at the estimate, the polling
\* loop is left only when the worker has ended, no catch-up step is taken,
\* and the call closes the display and returns.
C22_OverrunHeld ==
    /\ [](OverrunPoll =>
            /\ pbar.n = estimated_time /\ actuall_time = estimated_time
            /\ pc \notin {"c_if", "c_upd", "c_upd_in", "c_add"}
            /\ (pc \in {"while_catchup", "close", "return", "returned"}
                  => Dead))
    /\ (OverrunPoll ~> (Returned /\ pbar.closed))

\* C23: every thread.join of the invocation waits with the configured
\* tstep as its timeout, also after the remainder step and in overrun; the
\* timeout is never 0 and never a value the progress arithmetic produced.
C23_WaitIsQuantum ==
    (ValidConfig /\ hist.polled) =>
        (hist.poll.timeout = tstep_arg /\ lt(num(0), hist.poll.timeout))

\* The foreground has left the polling loop.
CatchUpPhase ==
    pc \in {"while_catchup", "c_if", "c_upd", "c_upd_in", "c_add", "close",
            "return", "returned"}

\* C24: after the polling loop, for positive estimated_time and tstep, each
\* catch-up update is by the configured tstep or, as the last one, by a
\* smaller positive remainder that brings the counter to the estimate; the
\* worker is not polled again; and the phase ends: the call returns once
\* the worker has ended.
C24_CatchUpTerminates ==
    /\ []((ValidConfig /\ pc = "c_upd") =>
            /\ lt(actuall_time, estimated_time)
            /\ \/ /\ tstep = tstep_arg
                  /\ le(add(actuall_time, tstep), estimated_time)
               \/ /\ lt(num(0), tstep) /\ lt(tstep, tstep_arg)
                  /\ add(actuall_time, tstep) = estimated_time)
    /\ [][CatchUpPhase => (CatchUpPhase' /\ hist'.poll = hist.poll /\ Dead)]_vars
    /\ ((ValidConfig /\ Dead) ~> Returned)

\* The worker is inside a call on the handle.
InHandleCall == wpc \in {"in_print_with_bar", "in_print_in_line"}

\* C28: a call on the handle changes neither the displayed value nor the
\* elapsed counter (nor the step, nor closes the bar), and after any number
\* of print_with_bar calls the template is the configured bar_format
\* followed by the last message alone.
C28_HandleOnlyEmits ==
    /\ [](pbar # NoBar =>
            pbar.bar_format =
                (IF hist.last_msg = None THEN BAR_FORMAT
                 ELSE BAR_FORMAT \o <<hist.last_msg>>))
    /\ [][(InHandleCall /\ wpc' = "body") =>
            /\ pbar'.n = pbar.n /\ pbar'.closed = pbar.closed
            /\ actuall_time' = actuall_time /\ tstep' = tstep
            /\ (wpc = "in_print_in_line" => pbar'.bar_format = pbar.bar_format)
            /\ (wpc = "in_print_with_bar" => pbar'.lines = pbar.lines)]_vars

\* The task has called both operations while the bar was moving: the
\* template carries the message, the line is written, the value is at 1.
C28_Witness ==
    /\ handle = "builtin" /\ work = 0 /\ wpc = "body"
    /\ pbar.bar_format = BAR_FORMAT \o <<"m2">>
    /\ pbar.lines = <<"m1">>
    /\ pbar.n = num(1) /\ actuall_time = num(1)

\* The foreground is at the head of the polling loop or of the catch-up
\* loop: before the first iteration or at the end of one.
AtLoopHead == pc \in {"while_alive", "while_catchup"}

\* C29: at the end of every iteration of the polling loop and of the
\* catch-up loop the displayed value, which is the sum of the increments
\* passed to pbar.update in this invocation, equals actuall_time.
C29_DisplayInStep == AtLoopHead => pbar.n = actuall_time

\* An iteration that took both the full step and the remainder step has
\* ended: two updates, of 2 and of 1, and the counter is at 3.
C29_Witness ==
    /\ PollDone /\ estimated_time = num(3) /\ tstep_arg = num(2)
    /\ hist.poll.a = num(0) /\ actuall_time = num(3) /\ pbar.n = num(3)

\* An iteration of the catch-up loop has ended with the loop still open.
C29_WitnessCatchUp ==
    /\ pc = "while_catchup" /\ Dead
    /\ lt(num(0), actuall_time) /\ lt(actuall_time, estimated_time)
    /\ pbar.n = actuall_time

\* -------------------------------------------------- claims on invocations
Frame(i) == calls.frames[i]

\* C25: each invocation starts exactly one worker thread, and when it has
\* returned the task body has been executed exactly once, on that thread,
\* never on the foreground thread.
C25_BodyOnceOnWorker ==
    \A i \in Invocations :
        /\ Frame(i).threads = (IF Frame(i).pc = "idle" THEN 0 ELSE 1)
        /\ \A k \in 1 .. Len(Frame(i).body_by) : Frame(i).body_by[k] = "worker"
        /\ Len(Frame(i).body_by) <= 1
        /\ (Frame(i).pc = "returned" => Len(Frame(i).body_by) = 1)

\* C26: the task is called with exactly the positional arguments of the
\* caller, in order, and exactly the caller's keywords with their values,
\* but for the value of _progress_bar; nothing else is passed.
C26_ArgsForwarded ==
    \A i \in Invocations :
        (Frame(i).pc = "returned") =>
            /\ Frame(i).received.called
            /\ Frame(i).received.args = Frame(i).args
            /\ DOMAIN Frame(i).received.kwargs = DOMAIN Frame(i).kwargs
            /\ \A k \in DOMAIN Frame(i).kwargs \ {"_progress_bar"} :
                 Frame(i).received.kwargs[k] = Frame(i).kwargs[k]

\* C27: every invocation starts with the elapsed counter 0 and the tstep
\* and estimate the decorator was given, whatever an earlier or concurrent
\* invocation has done to its own step; its display follows its own
\* counter; and it returns the value its own task returned.
C27_PerInvocation ==
    /\ calls.closure = calls.config
    /\ \A i \in Invocations :
         (Frame(i).pc # "idle") =>
            /\ Frame(i).start.tstep = calls.config.tstep
            /\ Frame(i).start.actuall_time = 0
            /\ Frame(i).start.estimated_time = calls.config.estimated_time
            /\ Frame(i).pbar.n = Frame(i).actuall_time
            /\ Frame(i).ret \in {None, i}
            /\ (Frame(i).wpc = "finished" => Frame(i).ret = i)
            /\ (Frame(i).pc = "returned" =>
                  Frame(i).result = [kind |-> "return", value |-> Frame(i).ret])

\* Two invocations are polling at once: the first is in overrun with its
\* step shrunk to 0, the second has its configured step and a lower counter.
C27_Witness ==
    /\ Frame("first").pc = "loop" /\ Frame("second").pc = "loop"
    /\ Frame("first").tstep = 0
    /\ Frame("first").actuall_time = calls.config.estimated_time
    /\ Frame("second").tstep = calls.config.tstep
    /\ 0 < Frame("second").actuall_time
    /\ Frame("second").actuall_time < Frame("first").actuall_time

\* One after the other: the second invocation started after the first had
\* returned with a shrunken step, and both returned their own value.
C27_WitnessSequential ==
    /\ Frame("first").pc = "returned" /\ Frame("second").pc = "returned"
    /\ Frame("first").result.value = "first"
    /\ Frame("second").result.value = "second"
    /\ Frame("first").tstep = 0 /\ Frame("second").tstep = 1
    /\ calls.config.tstep = 2

\* ------------------------------------------------------- claims on sysc
\* s is raw without its leading and trailing whitespace: stated from the
\* result, not by running strip.
IsStripOf(s, raw) ==
    \E i \in 0 .. Len(raw), j \in 0 .. Len(raw) :
        /\ i + j <= Len(raw)
        /\ s = SubSeq(raw, i + 1, Len(raw) - j)
        /\ \A k \in 1 .. i : raw[k] \in Whitespace
        /\ \A k \in (Len(raw) - j + 1) .. Len(raw) : raw[k] \in Whitespace
        /\ (s = <<>> \/ (s[1] \notin Whitespace /\ s[Len(s)] \notin Whitespace))

SyscReturned == sy.pc = "returned"

\* C12: the lines sysc returns are the lines the child wrote, in the order
\* written, each stripped, none missing and none twice.
C12_LinesInOrder ==
    /\ Len(sy.OUT) <= Len(proc.emitted)
    /\ \A i \in 1 .. Len(sy.OUT) : IsStripOf(sy.OUT[i], proc.emitted[i])
    /\ SyscReturned =>
         (sy.result.OUT = sy.OUT /\ Len(sy.OUT) = Len(proc.emitted))

\* Two different lines, the first with whitespace around its text, were
\* written and returned.
C12_Witness ==
    /\ SyscReturned /\ Len(sy.result.OUT) = 2
    /\ sy.result.OUT[1] # sy.result.OUT[2]
    /\ proc.emitted[1] = <<" ", "b", "\n">> /\ sy.result.OUT[1] = <<"b">>

\* C13: sysc leaves its loop only when a read returned end of stream and the
\* poll after it found the child exited; the code returned is the child's
\* exit status, never None.
C13_ExitCodeCaptured ==
    sy.pc \in {"return", "returned"} =>
        /\ sy.line = EOF_ /\ proc.pipe = <<>>
        /\ proc.pc = "exited"
        /\ sy.RC = proc.status /\ sy.RC # None
        /\ (SyscReturned => sy.result.RC = proc.status)

\* A read returned end of stream while the child was still running; the
\* loop went on and sysc returned the later exit status 1.
C13_Witness ==
    SyscReturned /\ sy.eof_while_running /\ sy.result.RC = "1"

\* C14: for every exit status sysc returns normally, with the collected
\* lines and that status; it never raises on a non-zero status.
C14_NoRaiseOnNonZero ==
    /\ sy.result.kind \in {"pending", "return"}
    /\ SyscReturned =>
         /\ sy.result.kind = "return"
         /\ sy.result.RC = proc.status
         /\ Len(sy.result.OUT) = Len(proc.emitted)

\* The child wrote a line and exited with status 2; sysc returned both.
C14_Witness ==
    /\ SyscReturned /\ sy.result.kind = "return" /\ sy.result.RC = "2"
    /\ Len(sy.result.OUT) > 0

\* The text the sink is to get for the i-th line read.
ExpectedSinkText(i) ==
    LET raw == sy.read[i]
        stripped == CHOOSE t \in {SubSeq(raw, a, b) :
                                    a \in 1 .. Len(raw) + 1,
                                    b \in 0 .. Len(raw)} : IsStripOf(t, raw)
    IN  IF sy.printfunction = "print" THEN <<"\r">> \o stripped ELSE stripped

\* C15: with outprint the sink is called once per line, in order, as soon as
\* the line is read and before the next read, with '\r' + line for the
\* default print and the bare line for a custom sink; without outprint it is
\* never called.
C15_SinkPerLine ==
    /\ ~sy.outprint => sy.printed = <<>>
    /\ sy.outprint =>
         /\ Len(sy.printed) <= Len(sy.read)
         /\ \A i \in 1 .. Len(sy.printed) : sy.printed[i] = ExpectedSinkText(i)
         /\ (sy.pc \in {"append", "readline", "poll", "return", "returned"}
               => Len(sy.printed) = Len(sy.read))
    /\ sy.read = SubSeq(proc.emitted, 1, Len(sy.read))

\* The default print got '\r' + 'a' for the first line while the child was
\* still running, and a custom sink is exercised by C15_WitnessCustom.
C15_Witness ==
    /\ sy.outprint /\ sy.printfunction = "print"
    /\ proc.pc = "running" /\ proc.stdout_open
    /\ sy.printed = << <<"\r", "a">> >>
    /\ sy.pc = "readline"

C15_WitnessCustom ==
    /\ sy.outprint /\ sy.printfunction = "custom"
    /\ SyscReturned /\ sy.printed = << <<"a">>, <<"a", " ", "b">> >>

\* The child has closed its output, the pipe is drained, and it still runs.
ClosedAndRunning ==
    proc.pc = "running" /\ ~proc.stdout_open /\ proc.pipe = <<>>

\* C30: sysc returns only after the child has exited and its output stream
\* is closed; a poll taken while the child runs sends sysc back into the
\* loop; while the child runs with its output closed sysc is never blocked
\* and polls again (or the child exits); and once the output stream is
\* closed and the child has exited sysc eventually returns.
C30_TerminatesWithChild ==
    /\ [](sy.pc \in {"return", "returned"} =>
            (proc.pc = "exited" /\ ~proc.stdout_open))
    /\ [][(sy.pc = "poll" /\ proc.pc = "running") =>
            sy'.pc \in {"poll", "if_line"}]_vars
    /\ ((ClosedAndRunning /\ sy.pc # "poll")
            ~> (sy.pc = "poll" \/ proc.pc = "exited"))
    /\ ((proc.pc = "exited" /\ ~proc.stdout_open) ~> SyscReturned)

\* sysc has already polled a running child once and is back at the poll,
\* the child still running with its output closed.
C30_Witness ==
    ClosedAndRunning /\ sy.pc = "poll" /\ sy.eof_while_running

\* ------------------------------- claims on merge_dicts, merge_all_dicts
\* m is the merge of d1 and d2 as C16 words it.
RECURSIVE IsMergeOf(_, _, _)
IsMergeOf(m, d1, d2) ==
    /\ DOMAIN m = DOMAIN d1 \cup DOMAIN d2
    /\ \A k \in DOMAIN m :
         IF k \notin DOMAIN d2 THEN m[k] = d1[k]
         ELSE IF k \notin DOMAIN d1 THEN m[k] = d2[k]
         ELSE IF d1[k].t = "d" /\ d2[k].t = "d"
              THEN m[k].t = "d" /\ IsMergeOf(m[k].d, d1[k].d, d2[k].d)
              ELSE m[k] = d2[k]

\* C16: dict(merge_dicts(d1, d2)) has the union of the keys; a key of one
\* dict keeps its value; a key of both gets the recursive merge when both
\* values are dicts and d2's value otherwise; d1 and d2 are unchanged.
C16_MergeDicts ==
    (mg.pc = "done" /\ mg.called = "merge_dicts") =>
        /\ IsMergeOf(mg.out, mg.args[1], mg.args[2])
        /\ mg.dict_container = mg.args

\* Both dicts hold a nested dict under "x" with different keys, and d2 alone
\* has "y": the result nests both keys and has "y".
C16_Witness ==
    /\ mg.pc = "done" /\ mg.called = "merge_dicts"
    /\ mg.args[1] = [k \in {"x"} |-> DictVal([j \in {"x"} |-> Val(1)])]
    /\ DOMAIN mg.args[2] = {"x", "y"}
    /\ mg.args[2]["x"] = DictVal([j \in {"y"} |-> Val(2)])
    /\ DOMAIN mg.out["x"].d = {"x", "y"}

\* The left-to-right fold of merge_dicts over a list.
RECURSIVE FoldMerge(_)
FoldMerge(c) ==
    IF Len(c) = 0 THEN <<>>
    ELSE IF Len(c) = 1 THEN c[1]
    ELSE dict(merge_dicts(FoldMerge(SubSeq(c, 1, Len(c) - 1)), c[Len(c)]))

\* C17: merge_all_dicts(list) is the left-to-right fold of merge_dicts: {}
\* for the empty list, the dict itself for one, and for more every dict
\* takes part once, a later scalar overriding what came before.
C17_MergeAllIsFold ==
    (mg.pc = "done" /\ mg.called = "merge_all_dicts") =>
        LET c == mg.args IN
        /\ mg.out = FoldMerge(c)
        /\ DOMAIN mg.out = UNION {DOMAIN c[i] : i \in 1 .. Len(c)}
        /\ \A i \in 1 .. Len(c) : \A k \in DOMAIN c[i] :
             (c[i][k].t = "v" /\ \A j \in (i + 1) .. Len(c) : k \notin DOMAIN c[j])
                 => mg.out[k] = c[i][k]

\* Three dicts: the third overrides "y" of the second and adds to the
\* nested dict under "x".
C17_Witness ==
    /\ mg.pc = "done" /\ mg.called = "merge_all_dicts"
    /\ Len(mg.args) = 3
    /\ "y" \in DOMAIN mg.args[2] /\ "y" \in DOMAIN mg.args[3]
    /\ mg.args[2]["y"] # mg.args[3]["y"]
    /\ mg.out["y"] = mg.args[3]["y"]
    /\ "x" \in DOMAIN mg.out /\ mg.out["x"].t = "d"
    /\ DOMAIN mg.out["x"].d = {"x", "y"}

\* The short lists of C17.
C17_WitnessEmpty ==
    mg.pc = "done" /\ mg.called = "merge_all_dicts" /\ mg.args = <<>>
        /\ mg.out = <<>>
C17_WitnessOne ==
    mg.pc = "done" /\ mg.called = "merge_all_dicts" /\ Len(mg.args) = 1
        /\ mg.out = mg.args[1] /\ DOMAIN mg.out = {"x", "y"}

\* ------------------------------------------------------ claims on ignored
\* The block's exception is an instance of E.
IsInstanceOfE == ig.block # "none" /\ ig.exception \in mro(ig.block)

\* C18: after `with ignored(exception=E, func=f, **kw)`: a block exception
\* that is an instance of E does not propagate and f(**kw) was called
\* exactly once; one that is not an instance of E propagates and f was not
\* called; with no exception f was not called.
C18_Ignored ==
    (ig.pc = "after") =>
        /\ IsInstanceOfE =>
             /\ ig.func_calls = <<ig.kwargs>>
             /\ ig.propagated.origin # "block"
             /\ ig.func_raises = "none" =>
                  (ig.outcome = "suppressed" /\ ig.propagated = NoExc)
        /\ (ig.block # "none" /\ ~IsInstanceOfE) =>
             /\ ig.func_calls = <<>>
             /\ ig.outcome = "raised"
             /\ ig.propagated = Exc(ig.block, "block")
        /\ ig.block = "none" =>
             (ig.func_calls = <<>> /\ ig.outcome = "completed")

\* A UnicodeError under exception=ValueError (a subclass instance) is
\* swallowed and func gets the keyword argument.
C18_Witness ==
    /\ ig.pc = "after"
    /\ ig.exception = "ValueError" /\ ig.block = "UnicodeError"
    /\ ig.outcome = "suppressed"
    /\ ig.func_calls = <<[k \in {"message"} |-> "Error ignored"]>>

\* A KeyboardInterrupt under the default exception=Exception propagates.
C18_WitnessPropagates ==
    /\ ig.pc = "after"
    /\ ig.exception = "Exception" /\ ig.block = "KeyboardInterrupt"
    /\ ig.outcome = "raised" /\ ig.func_calls = <<>>

\* ------------------------------------------------------ claims on teewrap
\* C19: after a teewrap wrapper has returned or raised, sys.stdout is the
\* object it was before the call, the handler the wrapper added is off the
\* root logger, the log file is closed, and an exception of the function
\* has gone on to the caller.
C19_OutputStateRestored ==
    (tw.last.depth > 0) =>
        /\ tw.last.stdout_after = tw.last.stdout_before
        /\ ~tw.last.handler_present
        /\ ~tw.last.file_open
        /\ tw.last.func_raised => tw.last.raised

\* A nested call whose function raised has left: sys.stdout is again the
\* outer call's Tee, and the function had written through both Tees.
C19_Witness ==
    /\ tw.last.depth = 2 /\ tw.last.opened /\ tw.last.func_raised
    /\ tw.last.raised
    /\ tw.last.stdout_after = TeeOf(1) /\ tw.sys_stdout = TeeOf(1)
    /\ tw.written[FileOf(2)] > 0 /\ tw.written[FileOf(1)] > 0
    /\ tw.handlers \cap {HandlerOf(2)} = {}

\* The outermost call is over after its function rebound sys.stdout and
\* raised: sys.stdout is the console again and nothing is left open.
C19_WitnessRebound ==
    /\ tw.pc = "done" /\ tw.last.depth = 1 /\ tw.last.raised
    /\ tw.ops > 0 /\ tw.written[FileOf(1)] = 0
    /\ tw.last.stdout_before = Console /\ tw.sys_stdout = Console
    /\ tw.open_files = {} /\ tw.handlers = {}
    /\ tw.level = "DEBUG"

\* ---------------------------------------------------- claims on DateTrans
\* The quarter of the year that holds month m.
QuarterOfYear(m) == ((m - 1) \div 3) + 1

\* C20: for every valid date DateTrans(date).quarter is the quarter of the
\* year, 1 to 4, that holds the date's month, and yearquarter is the year,
\* "Q" and that quarter.
C20_QuarterOfYear ==
    (dtr.pc = "done") =>
        /\ dtr.quarter \in 1 .. 4
        /\ dtr.quarter = QuarterOfYear(dtr.date[2])
        /\ dtr.yearquarter =
               str(dtr.date[1]) \o <<"Q">> \o str(QuarterOfYear(dtr.date[2]))

====
